---- MODULE Spec2Model ----
(***************************************************************************)
(* Model of the geohash library (src/src/lib.rs): encode_long, encode,     *)
(* decode_bbox, decode, neighbor, neighbors.                               *)
(*                                                                         *)
(* The library is a set of pure functions.  Each function is an operator   *)
(* computed the way its code computes it (the loops are recursions over    *)
(* the loop state); each action is one call of a public function on inputs *)
(* drawn from bounded sets, recording the call and what it returned.       *)
(*                                                                         *)
(* f64 values are dyadic rationals <<m, e>> standing for m * 2^(-e)        *)
(* degrees, kept normalised (m odd, or e = 0).  Every value the model      *)
(* computes has |m| < 2^31, so m fits the 53-bit significand and every     *)
(* f64 operation modelled here (+, -, /2, *2, comparison) is exact.        *)
(***************************************************************************)
EXTENDS Integers, Sequences, FiniteSets, TLC

VARIABLES call, ret

vars == <<call, ret>>

(***************************************************************************)
(* Bounds of the model.                                                    *)
(***************************************************************************)
\* hash strings and encode lengths of 0..MaxLen symbols, exhaustively
MaxLen == 1
\* input coordinates lie on a grid of 2^GridBits steps per axis
GridBits == 5
\* the deep calls use lengths up to MaxDeepLen symbols
MaxDeepLen == 27

\* The element of a one-element set.  The({e(v) : v \in {d}}) is "let v be
\* the value of d in e(v)": d is computed once, before e.
The(S) == CHOOSE x \in S : TRUE

(***************************************************************************)
(* f64 arithmetic on dyadic rationals.                                     *)
(***************************************************************************)
RECURSIVE Pow2(_)
Pow2(n) == IF n = 0 THEN 1 ELSE 2 * Pow2(n - 1)

RECURSIVE F(_, _)
F(m, e) ==
    IF m = 0 THEN <<0, 0>>
    ELSE IF e > 0 /\ m % 2 = 0 THEN F(m \div 2, e - 1)
    ELSE IF e < 0 THEN F(2 * m, e + 1)
    ELSE <<m, e>>

FMax(a, b) == IF a >= b THEN a ELSE b

FAdd(a, b) ==
    IF a[1] = 0 THEN b
    ELSE IF b[1] = 0 THEN a
    ELSE LET e == FMax(a[2], b[2])
         IN  F(a[1] * Pow2(e - a[2]) + b[1] * Pow2(e - b[2]), e)

FNeg(a) == <<-a[1], a[2]>>

FSub(a, b) == FAdd(a, FNeg(b))

\* a / 2f64
FHalf(a) == F(a[1], a[2] + 1)

\* a * k for a small integer k (2f64, dlat as f64, dlng as f64)
FTimes(a, k) == F(a[1] * k, a[2])

\* f64::abs
FAbs(a) == IF a[1] < 0 THEN FNeg(a) ELSE a

\* m * 2^k when its magnitude stays below 2^30, else Huge with the sign of m:
\* a magnitude no normalised operand of the comparison below reaches
Huge == Pow2(30)

RECURSIVE Scale(_, _)
Scale(m, k) ==
    IF k = 0 \/ m = 0 THEN m
    ELSE IF m >= Huge \div 2 THEN Huge
    ELSE IF -m >= Huge \div 2 THEN -Huge
    ELSE Scale(2 * m, k - 1)

\* a > b: the significands are compared at the finer of the two exponents
FGt(a, b) ==
    LET e == FMax(a[2], b[2])
        ma == Scale(a[1], e - a[2])
        mb == Scale(b[1], e - b[2])
    IN  ma > mb

FLe(a, b) == ~FGt(a, b)

\* the literals 90f64 and 180f64
F90 == <<90, 0>>
F180 == <<180, 0>>

Coordinate(x, y) == [x |-> x, y |-> y]

(***************************************************************************)
(* The alphabet.                                                           *)
(***************************************************************************)
BASE32_CODES ==
    << "0", "1", "2", "3", "4", "5", "6", "7", "8", "9", "b",
       "c", "d", "e", "f", "g", "h", "j", "k", "m", "n", "p",
       "q", "r", "s", "t", "u", "v", "w", "x", "y", "z" >>

Alphabet == {BASE32_CODES[i] : i \in 1..Len(BASE32_CODES)}

\* BASE32_CODES.iter().position(|n| *n == c): Some(index) or None
None == [kind |-> "none"]
Some(v) == [kind |-> "some", val |-> v]

position(c) ==
    IF \E i \in 1..Len(BASE32_CODES) : BASE32_CODES[i] = c
    THEN Some((CHOOSE i \in 1..Len(BASE32_CODES) : BASE32_CODES[i] = c) - 1)
    ELSE None

(***************************************************************************)
(* Results: a call returns a value or panics.                              *)
(***************************************************************************)
Ok(v) == [kind |-> "ok", val |-> v]
Panic(msg) == [kind |-> "panic", msg |-> msg]

InvalidSymbol == Panic("called Option::unwrap() on a None value")
AddOverflow == Panic("attempt to add with overflow")

(***************************************************************************)
(* Fixed-width integers.                                                   *)
(***************************************************************************)
\* Rust's a % n on a signed a: the remainder has the sign of a
RustRem(a, n) == IF a >= 0 THEN a % n ELSE -((-a) % n)

I8_MAX == 127
I8_MIN == -128

\* a u64 is its 64 bits, most significant first
U64_BITS == 64
U64Zero == [i \in 1..U64_BITS |-> 0]

\* v << 1 on a u64: the top bit is dropped
U64Shl1(v) == Tail(v) \o <<0>>

\* v + 1 on a u64 (the carry runs up from the last bit)
RECURSIVE U64Inc(_)
U64Inc(v) ==
    IF v = <<>> THEN <<>>
    ELSE IF v[Len(v)] = 0 THEN SubSeq(v, 1, Len(v) - 1) \o <<1>>
    ELSE U64Inc(SubSeq(v, 1, Len(v) - 1)) \o <<0>>

(***************************************************************************)
(* Direction::to_tuple: (dlat, dlng).                                      *)
(***************************************************************************)
Direction == {"N", "Ne", "E", "Se", "S", "Sw", "W", "Nw"}

\* the pair as (dlng, dlat)
to_tuple_lng_first(d) ==
    CASE d = "Sw" -> <<-1, -1>>
      [] d = "S"  -> <<0, -1>>
      [] d = "Se" -> <<1, -1>>
      [] d = "W"  -> <<-1, 0>>
      [] d = "E"  -> <<1, 0>>
      [] d = "Nw" -> <<-1, 1>>
      [] d = "N"  -> <<0, 1>>
      [] d = "Ne" -> <<1, 1>>

to_tuple(d) ==
    CASE d = "Sw" -> <<-1, -1>>
      [] d = "S"  -> <<-1, 0>>
      [] d = "Se" -> <<-1, 1>>
      [] d = "W"  -> <<0, -1>>
      [] d = "E"  -> <<0, 1>>
      [] d = "Nw" -> <<1, -1>>
      [] d = "N"  -> <<1, 0>>
      [] d = "Ne" -> <<1, 1>>

(***************************************************************************)
(* The steps the bisections share.                                         *)
(***************************************************************************)
\* half the width where the midpoint is meant
MidOfWidth(max, min) == FHalf(FSub(max, min))

\* mid = (max + min) / 2f64
Mid(max, min) == FHalf(FAdd(max, min))

\* the comparison the other way round
EncodeBitBelow(v, mid) == FGt(mid, v)

\* the bit encode and encode_long emit: "if c.x > mid" ("if c.y > mid")
EncodeBit(v, mid) == FGt(v, mid)

\* the bits read least significant first
BitAtLowFirst(hash_value, bs) == (hash_value \div Pow2(bs)) % 2

\* the bit decode_bbox reads: (hash_value >> (4 - bs)) & 1usize
BitAt(hash_value, bs) == (hash_value \div Pow2(4 - bs)) % 2

(***************************************************************************)
(* encode_long: the loop state is <<bits_total, hash_value, bounds>>.      *)
(***************************************************************************)
EncodeLongInit ==
    [bits_total |-> 0, hash_value |-> U64Zero,
     max_lat |-> F90, min_lat |-> FNeg(F90),
     max_lon |-> F180, min_lon |-> FNeg(F180)]

EncodeLongStep(s, c) ==
    LET lon == s.bits_total % 2 = 0
        mid == IF lon THEN Mid(s.max_lon, s.min_lon)
                      ELSE Mid(s.max_lat, s.min_lat)
        one == IF lon THEN EncodeBit(c.x, mid) ELSE EncodeBit(c.y, mid)
    IN  [bits_total |-> s.bits_total + 1,
         hash_value |-> IF one THEN U64Inc(U64Shl1(s.hash_value))
                               ELSE U64Shl1(s.hash_value),
         max_lat |-> IF ~lon /\ ~one THEN mid ELSE s.max_lat,
         min_lat |-> IF ~lon /\ one THEN mid ELSE s.min_lat,
         max_lon |-> IF lon /\ ~one THEN mid ELSE s.max_lon,
         min_lon |-> IF lon /\ one THEN mid ELSE s.min_lon]

\* n passes through "while bits_total < bits { ... }": a pass whose guard is
\* false leaves the state alone.  The passes are split in halves to keep the
\* evaluation shallow.
RECURSIVE EncodeLongLoop(_, _, _, _)
EncodeLongLoop(s, c, bits, n) ==
    IF n = 0 THEN s
    ELSE IF n = 1
    THEN IF s.bits_total < bits THEN EncodeLongStep(s, c) ELSE s
    ELSE The({IF h.bits_total < bits
              THEN EncodeLongLoop(h, c, bits, n - (n \div 2))
              ELSE h :
                  h \in {EncodeLongLoop(s, c, bits, n \div 2)}})

\* the loop is given one pass more than it needs; Running is a loop whose
\* guard still holds after them
Running == [kind |-> "running"]

encode_long(c, bits) ==
    The({IF s.bits_total < bits THEN Running ELSE Ok(s.hash_value) :
            s \in {EncodeLongLoop(EncodeLongInit, c, bits, bits + 1)}})

(***************************************************************************)
(* encode.  overflow_checks is the build's setting: with it the i8         *)
(* addition bits_total += 1 panics at 127, without it the sum wraps.       *)
(* axes records the axis each iteration bisected; it is not a variable of  *)
(* the code.                                                               *)
(***************************************************************************)
EncodeInit ==
    [out |-> <<>>, bits |-> 0, bits_total |-> 0, hash_value |-> 0,
     max_lat |-> F90, min_lat |-> FNeg(F90),
     max_lon |-> F180, min_lon |-> FNeg(F180),
     axes |-> <<>>, panicked |-> FALSE]

EncodeStep(s, c, overflow_checks) ==
    LET lon == RustRem(s.bits_total, 2) = 0
        mid == IF lon THEN Mid(s.max_lon, s.min_lon)
                      ELSE Mid(s.max_lat, s.min_lat)
        one == IF lon THEN EncodeBit(c.x, mid) ELSE EncodeBit(c.y, mid)
        hash_value == IF one THEN (s.hash_value * 2) + 1 ELSE s.hash_value * 2
        bits == s.bits + 1
        overflow == s.bits_total = I8_MAX
        bits_total == IF overflow THEN I8_MIN ELSE s.bits_total + 1
        push == bits = 5
    IN  IF overflow /\ overflow_checks
        THEN [s EXCEPT !.panicked = TRUE]
        ELSE [out |-> IF push THEN Append(s.out, BASE32_CODES[hash_value + 1])
                              ELSE s.out,
              bits |-> IF push THEN 0 ELSE bits,
              bits_total |-> bits_total,
              hash_value |-> IF push THEN 0 ELSE hash_value,
              max_lat |-> IF ~lon /\ ~one THEN mid ELSE s.max_lat,
              min_lat |-> IF ~lon /\ one THEN mid ELSE s.min_lat,
              max_lon |-> IF lon /\ ~one THEN mid ELSE s.max_lon,
              min_lon |-> IF lon /\ one THEN mid ELSE s.min_lon,
              axes |-> Append(s.axes, IF lon THEN "lon" ELSE "lat"),
              panicked |-> FALSE]

\* n passes through "while out.len() < len { ... }", split as in encode_long
RECURSIVE EncodeLoop(_, _, _, _, _)
EncodeLoop(s, c, len, overflow_checks, n) ==
    IF n = 0 THEN s
    ELSE IF n = 1
    THEN IF ~s.panicked /\ Len(s.out) < len
         THEN EncodeStep(s, c, overflow_checks)
         ELSE s
    ELSE The({IF ~h.panicked /\ Len(h.out) < len
              THEN EncodeLoop(h, c, len, overflow_checks, n - (n \div 2))
              ELSE h :
                  h \in {EncodeLoop(s, c, len, overflow_checks, n \div 2)}})

\* the loop's final state, given five passes more than 5 * len
EncodeRun(c, len, overflow_checks) ==
    EncodeLoop(EncodeInit, c, len, overflow_checks, 5 * len + 5)

encode(c, len, overflow_checks) ==
    The({IF s.panicked THEN AddOverflow
         ELSE IF Len(s.out) < len THEN Running
         ELSE Ok(s.out) :
            s \in {EncodeRun(c, len, overflow_checks)}})

(***************************************************************************)
(* decode_bbox: the loop state is <<is_lon, bounds>>, or a panic.          *)
(***************************************************************************)
DecodeInit ==
    [is_lon |-> TRUE,
     max_lat |-> F90, min_lat |-> FNeg(F90),
     max_lon |-> F180, min_lon |-> FNeg(F180)]

\* the body of "for bs in 0..5"
DecodeBit(s, hash_value, bs) ==
    LET bit == BitAt(hash_value, bs)
        mid == IF s.is_lon THEN Mid(s.max_lon, s.min_lon)
                           ELSE Mid(s.max_lat, s.min_lat)
    IN  [is_lon |-> ~s.is_lon,
         max_lat |-> IF ~s.is_lon /\ bit # 1 THEN mid ELSE s.max_lat,
         min_lat |-> IF ~s.is_lon /\ bit = 1 THEN mid ELSE s.min_lat,
         max_lon |-> IF s.is_lon /\ bit # 1 THEN mid ELSE s.max_lon,
         min_lon |-> IF s.is_lon /\ bit = 1 THEN mid ELSE s.min_lon]

\* "for bs in 0..5" from bs on
RECURSIVE DecodeBits(_, _, _)
DecodeBits(s, hash_value, bs) ==
    IF bs < 5
    THEN The({DecodeBits(t, hash_value, bs + 1) : t \in {DecodeBit(s, hash_value, bs)}})
    ELSE s

\* "for c in hash_str.chars()" over the characters i..j, split in halves to
\* keep the evaluation shallow; the unwrap of a None panics and ends the loop
RECURSIVE DecodeChars(_, _, _, _)
DecodeChars(r, hash_str, i, j) ==
    IF r.kind = "panic" \/ i > j THEN r
    ELSE IF i = j
    THEN The({IF p.kind = "none" THEN InvalidSymbol
              ELSE Ok(DecodeBits(r.val, p.val, 0)) :
                  p \in {position(hash_str[i])}})
    ELSE The({IF h.kind = "panic" THEN h
              ELSE DecodeChars(h, hash_str, ((i + j) \div 2) + 1, j) :
                  h \in {DecodeChars(r, hash_str, i, (i + j) \div 2)}})

decode_bbox(hash_str) ==
    The({IF r.kind = "panic" THEN r
         ELSE Ok(<<Coordinate(r.val.min_lon, r.val.min_lat),
                   Coordinate(r.val.max_lon, r.val.max_lat)>>) :
            r \in {DecodeChars(Ok(DecodeInit), hash_str, 1, Len(hash_str))}})

\* decode's tuple with the errors the other way round
DecodeResultLatFirst(c0, c1) ==
    <<Coordinate(FHalf(FAdd(c0.x, c1.x)), FHalf(FAdd(c0.y, c1.y))),
      FHalf(FSub(c1.y, c0.y)),
      FHalf(FSub(c1.x, c0.x))>>

\* (<coordinate>, <longitude error>, <latitude error>)
DecodeResult(c0, c1) ==
    <<Coordinate(FHalf(FAdd(c0.x, c1.x)), FHalf(FAdd(c0.y, c1.y))),
      FHalf(FSub(c1.x, c0.x)),
      FHalf(FSub(c1.y, c0.y))>>

decode(hash_str) ==
    The({IF r.kind = "panic" THEN r ELSE Ok(DecodeResult(r.val[1], r.val[2])) :
            r \in {decode_bbox(hash_str)}})

(***************************************************************************)
(* neighbor and neighbors.                                                 *)
(***************************************************************************)
\* a nudge of one error, to the cell's edge
NudgeOnce(err, step) == FTimes(FAbs(err), step)

\* the offset of the nudged coordinate on one axis: 2f64 * err.abs() * step
Nudge(err, step) == FTimes(FTimes(FAbs(err), 2), step)

neighbor(hash_str, direction, overflow_checks) ==
    The({IF r.kind = "panic" THEN r
         ELSE LET coord == r.val[1]
                  lon_err == r.val[2]
                  lat_err == r.val[3]
                  dlat == to_tuple(direction)[1]
                  dlng == to_tuple(direction)[2]
              IN  The({encode(neighbor_coord, Len(hash_str), overflow_checks) :
                          neighbor_coord \in
                              {Coordinate(FAdd(coord.x, Nudge(lon_err, dlng)),
                                          FAdd(coord.y, Nudge(lat_err, dlat)))}}) :
            r \in {decode(hash_str)}})

\* r holds the eight results in the order the struct expression evaluates
\* them; the first panic is the call's
neighbors(hash_str, overflow_checks) ==
    The({IF \E i \in 1..Len(r) : r[i].kind = "panic"
         THEN r[CHOOSE i \in 1..Len(r) :
                    /\ r[i].kind = "panic"
                    /\ \A j \in 1..(i - 1) : r[j].kind # "panic"]
         ELSE Ok([sw |-> r[1].val, s |-> r[2].val, se |-> r[3].val,
                  w |-> r[4].val, e |-> r[5].val,
                  nw |-> r[6].val, n |-> r[7].val, ne |-> r[8].val]) :
            r \in {<<neighbor(hash_str, "Sw", overflow_checks),
                     neighbor(hash_str, "S", overflow_checks),
                     neighbor(hash_str, "Se", overflow_checks),
                     neighbor(hash_str, "W", overflow_checks),
                     neighbor(hash_str, "E", overflow_checks),
                     neighbor(hash_str, "Nw", overflow_checks),
                     neighbor(hash_str, "N", overflow_checks),
                     neighbor(hash_str, "Ne", overflow_checks)>>}})

(***************************************************************************)
(* The inputs of the calls.                                                *)
(***************************************************************************)
Lens == 0..MaxLen

\* characters outside the alphabet: the four excluded letters, an upper case
BadChars == {"a", "i", "l", "o", "B"}
Chars == Alphabet \cup BadChars

Strings(S, n) == UNION {[1..k -> S] : k \in 0..n}

\* every string up to MaxLen, and one symbol longer over a corner cell, an
\* inner cell and the characters outside the alphabet, so that a character
\* outside the alphabet comes first, last and in between
MixedChars == {"0", "9", "z"} \cup BadChars
HashStrs == Strings(Chars, MaxLen) \cup Strings(MixedChars, MaxLen + 1)

IsValid(hash_str) == \A i \in 1..Len(hash_str) : hash_str[i] \in Alphabet

\* x in [-180, 180] and y in [-90, 90] on the grid, both ends included
GridSteps == Pow2(GridBits)
Coords ==
    {Coordinate(F(360 * i - 180 * GridSteps, GridBits),
                F(180 * j - 90 * GridSteps, GridBits)) :
        i \in 0..GridSteps, j \in 0..GridSteps}

\* the deep calls: lengths up to MaxDeepLen, on the coordinates at and next
\* to the origin, whose bisection keeps small significands at any depth
DeepLens == 0..MaxDeepLen
Tiny == F(45, 5 * MaxDeepLen)
DeepCoords ==
    {Coordinate(x, y) : x \in {<<0, 0>>, Tiny, FNeg(Tiny)},
                        y \in {<<0, 0>>, Tiny, FNeg(Tiny)}}
DeepHashStrs == {encode(c, len, FALSE).val : c \in DeepCoords, len \in DeepLens}

(***************************************************************************)
(* The state: a call of one of the public functions, and what it returned  *)
(* (None while it has not).  overflow_checks is the build's setting; the   *)
(* caller does not choose it.                                              *)
(***************************************************************************)
Calls(coords, lens, hash_strs) ==
    {[fn |-> "encode", c |-> c, len |-> len] : c \in coords, len \in lens}
    \cup {[fn |-> "encode_long", c |-> c, bits |-> 5 * len] :
             c \in coords, len \in lens}
    \cup {[fn |-> f, hash_str |-> h] :
             f \in {"decode_bbox", "decode", "neighbors"}, h \in hash_strs}
    \cup {[fn |-> "neighbor", hash_str |-> h, direction |-> d] :
             h \in hash_strs, d \in Direction}

Init == call \in Calls(Coords, Lens, HashStrs) /\ ret = None

\* the deep calls: the same functions at lengths no exhaustive set reaches
InitDeep == call \in Calls(DeepCoords, DeepLens, DeepHashStrs) /\ ret = None

Encode ==
    /\ call.fn = "encode" /\ ret = None
    /\ \E overflow_checks \in BOOLEAN :
           ret' = encode(call.c, call.len, overflow_checks)
    /\ UNCHANGED call

EncodeLong ==
    /\ call.fn = "encode_long" /\ ret = None
    /\ ret' = encode_long(call.c, call.bits)
    /\ UNCHANGED call

DecodeBbox ==
    /\ call.fn = "decode_bbox" /\ ret = None
    /\ ret' = decode_bbox(call.hash_str)
    /\ UNCHANGED call

Decode ==
    /\ call.fn = "decode" /\ ret = None
    /\ ret' = decode(call.hash_str)
    /\ UNCHANGED call

Neighbor ==
    /\ call.fn = "neighbor" /\ ret = None
    /\ \E overflow_checks \in BOOLEAN :
           ret' = neighbor(call.hash_str, call.direction, overflow_checks)
    /\ UNCHANGED call

GetNeighbors ==
    /\ call.fn = "neighbors" /\ ret = None
    /\ \E overflow_checks \in BOOLEAN :
           ret' = neighbors(call.hash_str, overflow_checks)
    /\ UNCHANGED call

Next == Encode \/ EncodeLong \/ DecodeBbox \/ Decode \/ Neighbor \/ GetNeighbors

Spec == Init /\ [][Next]_vars

SpecDeep == InitDeep /\ [][Next]_vars

(***************************************************************************)
(* What the properties below speak of.                                     *)
(***************************************************************************)
Returned == ret.kind # "none"

\* the bounding box of a hash string of alphabet symbols
Box(hash_str) == decode_bbox(hash_str).val

Width(b) == FSub(b[2].x, b[1].x)
Height(b) == FSub(b[2].y, b[1].y)

\* box a lies in box b
Within(a, b) ==
    /\ FLe(b[1].x, a[1].x) /\ FLe(a[2].x, b[2].x)
    /\ FLe(b[1].y, a[1].y) /\ FLe(a[2].y, b[2].y)

HasPoint(b, c) ==
    /\ FLe(b[1].x, c.x) /\ FLe(c.x, b[2].x)
    /\ FLe(b[1].y, c.y) /\ FLe(c.y, b[2].y)

BoxNarrows ==
    (call.fn = "decode_bbox" /\ Returned /\ IsValid(call.hash_str)) =>
        /\ ret.kind = "ok"
        /\ FLe(ret.val[1].x, ret.val[2].x)
        /\ FLe(ret.val[1].y, ret.val[2].y)
        /\ \A c \in Alphabet :
               LET longer == Box(Append(call.hash_str, c))
               IN  /\ Within(longer, ret.val)
                   /\ FLe(Width(longer), Width(ret.val))
                   /\ FLe(Height(longer), Height(ret.val))

WitnessBoxNarrows ==
    /\ call.fn = "decode_bbox" /\ ret.kind = "ok"
    /\ Len(call.hash_str) = 1 /\ IsValid(call.hash_str)
    /\ FGt(Width(ret.val), Width(Box(Append(call.hash_str, "z"))))
    /\ Within(Box(Append(call.hash_str, "z")), ret.val)

DLat(d) == IF d \in {"N", "Ne", "Nw"} THEN 1 ELSE IF d \in {"S", "Se", "Sw"} THEN -1 ELSE 0
DLng(d) == IF d \in {"E", "Ne", "Se"} THEN 1 ELSE IF d \in {"W", "Nw", "Sw"} THEN -1 ELSE 0

Opposite(d) == CHOOSE o \in Direction : DLat(o) = -DLat(d) /\ DLng(o) = -DLng(d)

\* box b moved by dlng widths and dlat heights
Translate(b, dlat, dlng) ==
    <<Coordinate(FAdd(b[1].x, FTimes(Width(b), dlng)),
                 FAdd(b[1].y, FTimes(Height(b), dlat))),
      Coordinate(FAdd(b[2].x, FTimes(Width(b), dlng)),
                 FAdd(b[2].y, FTimes(Height(b), dlat)))>>

\* the box lies on the world boundary on the side the step points to
LatOut(b, dlat) == (dlat = 1 /\ b[2].y = F90) \/ (dlat = -1 /\ b[1].y = FNeg(F90))
LngOut(b, dlng) == (dlng = 1 /\ b[2].x = F180) \/ (dlng = -1 /\ b[1].x = FNeg(F180))
PointsOut(b, d) == LatOut(b, DLat(d)) \/ LngOut(b, DLng(d))

OnBoundary(b) == \E d \in Direction : PointsOut(b, d)

\* n is the cell next to h in direction d, at the length of h
Adjacent(n, h, d) ==
    /\ Len(n) = Len(h)
    /\ IsValid(n)
    /\ Box(n) = Translate(Box(h), DLat(d), DLng(d))

\* the field of Neighbors that holds direction d
Field(ns, d) ==
    CASE d = "Sw" -> ns.sw [] d = "S" -> ns.s [] d = "Se" -> ns.se
      [] d = "W" -> ns.w [] d = "E" -> ns.e
      [] d = "Nw" -> ns.nw [] d = "N" -> ns.n [] d = "Ne" -> ns.ne

FailsOnlyOnInvalidSymbol ==
    (call.fn \in {"decode_bbox", "decode", "neighbor", "neighbors"} /\ Returned) =>
        /\ ~IsValid(call.hash_str) => ret = InvalidSymbol
        /\ IsValid(call.hash_str) => ret.kind = "ok"

\* C6: encode has no error path: for every in-range coordinate and every
\* len it ends after 5 * len bits, longitude on the even bit indices and
\* latitude on the odd ones, and returns len alphabet symbols
EncodeIsTotal ==
    (call.fn = "encode" /\ Returned) =>
        /\ ret.kind = "ok"
        /\ Len(ret.val) = call.len
        /\ IsValid(ret.val)
        /\ \E overflow_checks \in BOOLEAN :
               LET s == EncodeRun(call.c, call.len, overflow_checks)
               IN  /\ ~s.panicked /\ s.out = ret.val
                   /\ Len(s.axes) = 5 * call.len
                   /\ \A i \in 1..Len(s.axes) :
                          s.axes[i] = IF (i - 1) % 2 = 0 THEN "lon" ELSE "lat"

(***************************************************************************)
(* encode_long against encode.                                             *)
(***************************************************************************)
\* the bits of a hash string: the 5-bit indices of its symbols, in order
SymbolBits(out) ==
    [i \in 1..(5 * Len(out)) |->
        (position(out[((i - 1) \div 5) + 1]).val \div Pow2(4 - ((i - 1) % 5))) % 2]

\* the u64 v is the number whose binary digits are b
IsNumber(v, b) ==
    IF Len(b) <= U64_BITS
    THEN v = [i \in 1..(U64_BITS - Len(b)) |-> 0] \o b
    ELSE /\ \A i \in 1..(Len(b) - U64_BITS) : b[i] = 0
         /\ v = SubSeq(b, Len(b) - U64_BITS + 1, Len(b))

\* C5: encode_long(C, 5 * L) is the 5L-bit number whose digits are the bits
\* of the symbols of encode(C, L), for every L (5 * L > 64 included).  The
\* encode taken is the one of a build without overflow checks, which returns
\* at every length.
EncodeLongIsEncode ==
    (call.fn = "encode_long" /\ Returned) =>
        /\ ret.kind = "ok"
        /\ encode(call.c, call.bits \div 5, FALSE).kind = "ok"
        /\ IsNumber(ret.val, SymbolBits(encode(call.c, call.bits \div 5, FALSE).val))

====
